---- MODULE Spec2Model ----
(***************************************************************************)
(* Conversation-history handling of the WhatsApp bot.                      *)
(*                                                                         *)
(*   app/bot/assistant.py           ChatAssistant (user_histories)         *)
(*   app/bot/providers/llm_provider.py   LLMProvider.get_chat_completion   *)
(*   app/bot/prompt_builder/...     WhatsAppPromptBuilder                  *)
(*   app/bot/utils.py               process_whatsapp_message               *)
(*   app/services/openai_service.py _CONV_HISTORY, generate_response,      *)
(*                                  generate_image_response                *)
(*                                                                         *)
(* A Python str is a sequence of tokens (a token is a piece of text, " "   *)
(* is white space); a message's content is a record holding either a str   *)
(* or a list of typed parts.  Every handler runs in a thread and advances  *)
(* statement by statement (frame[t].pc); the sequential specifications run *)
(* one thread, SpecConc runs two.                                          *)
(***************************************************************************)
EXTENDS Naturals, Sequences, FiniteSets, TLC

\* ------------------------------------------------------------------ bounds
\* Retention bounds, scaled down from the program's 10 (assistant.py:27) and
\* 12 (openai_service.py:170) so that trimming happens within MaxMsgs calls.
max_history_turns == 2
MAX_TURNS == 2
\* Inbound messages handled in one run of a sequential specification.
MaxMsgs == 3

Threads == {1, 2}
Users == {"A", "B"}
\* The sequential specifications follow the conversation of one user.
SeqUsers == {"A"}

\* ------------------------------------------------------------------- data
SP == " "
NoStr == << >>

\* Optional[str]: None, or a str.
None == [none |-> TRUE, s |-> NoStr]
Some(s) == [none |-> FALSE, s |-> s]
\* Python truthiness of an Optional[str]: None and "" are falsy.
Truthy(o) == (~o.none) /\ o.s # NoStr

\* A message content: a plain str, or a list of parts (multimodal).
StrContent(s) == [str |-> s, parts |-> << >>]
PartsContent(ps) == [str |-> NoStr, parts |-> ps]
Part(type, val) == [type |-> type, val |-> val]

Turn(role, content) == [role |-> role, content |-> content]

\* The text of inbound message number m (text body, or image id).
MsgToken(m) == <<"m1", "m2", "m3", "m4", "m5", "m6">>[m]
MsgText(m) == <<MsgToken(m)>>
\* The profile name of a user.
NameOf(u) == <<"name-of-", u>>

RECURSIVE LStrip(_)
LStrip(s) == IF s # << >> /\ Head(s) = SP THEN LStrip(Tail(s)) ELSE s
RECURSIVE RStrip(_)
RStrip(s) ==
    IF s # << >> /\ s[Len(s)] = SP THEN RStrip(SubSeq(s, 1, Len(s) - 1)) ELSE s
\* str.strip()
Strip(s) == RStrip(LStrip(s))

\* lst[-n:] for n > 0
LastN(lst, n) == IF Len(lst) <= n THEN lst ELSE SubSeq(lst, Len(lst) - n + 1, Len(lst))
\* lst[k:] for k >= 0
DropFirst(lst, k) == IF k >= Len(lst) THEN << >> ELSE SubSeq(lst, k + 1, Len(lst))

\* ------------------------------------------------------------------ state
VARIABLES
    user_histories,  \* ChatAssistant.user_histories: wa_id -> list of turns
    CONV_HISTORY,    \* openai_service._CONV_HISTORY: wa_id -> list of turns
    frame,           \* per thread: position and local variables of its handler
    received,        \* the inbound messages so far, what came of each
    appended,        \* per store and user, every turn that was added to it
    llm_provider,    \* an LLMProvider under construction, with its environment
    request,         \* a webhook request on its way through signature_required
    whatsapp_adapter \* a WhatsAppAdapter and its call of send_text_message

\* The collaborators of the conversation handlers, each with a
\* specification of its own.
collaborators == <<llm_provider, request, whatsapp_adapter>>

vars == <<user_histories, CONV_HISTORY, frame, received, appended, collaborators>>

NoRef == [live |-> FALSE, val |-> << >>]

IdleFrame ==
    [pc |-> "idle", fn |-> "none", wa_id |-> "A", msg |-> 0, caption |-> None,
     history_for_prompt |-> << >>, messages_payload |-> << >>,
     llm_reply_text |-> NoStr, role |-> "none", content |-> StrContent(NoStr),
     ret |-> "idle", current_history |-> NoRef, new_list |-> << >>,
     assistant_text |-> NoStr, excess |-> 0, system_message_arg |-> None,
     system_message |-> NoStr, user_message_parts |-> << >>,
     mime_type |-> NoStr, data_url |-> NoStr, branch |-> "none"]

\* ------------------------------------------------ collaborators at rest
\* The environment variables that LLMProvider reads and requires.
RequiredVars ==
    {"OPENAI_API_KEY", "OPENAI_MODEL_NAME",
     "AZURE_OPENAI_ENDPOINT", "AZURE_OPENAI_API_KEY", "AZURE_OPENAI_DEPLOYMENT_NAME",
     "VLLM_API_BASE", "VLLM_MODEL_NAME"}
EnvVars == {"CHAT_API_PROVIDER"} \cup RequiredVars

\* No LLMProvider is under construction.
NoProvider ==
    [environ |-> [var \in EnvVars |-> None], pc |-> "none", provider |-> NoStr,
     raised |-> "none", client |-> "none", completion_called |-> FALSE]

\* No request is on its way through signature_required.
NoRequest ==
    [header |-> None, data |-> [decodes |-> TRUE, text |-> NoStr],
     APP_SECRET |-> NoStr, pc |-> "none", signature |-> NoStr,
     raised |-> "none", status |-> 0, view_invoked |-> FALSE]

\* No send_text_message is under way.
NoSend ==
    [phone_number_id |-> None, access_token |-> None, pc |-> "none",
     recipient_wa_id |-> "A", text |-> NoStr, posts |-> << >>,
     outcome |-> [exception |-> "none", status_code |-> 0], ret |-> "none"]

CollaboratorsAtRest ==
    /\ llm_provider = NoProvider
    /\ request = NoRequest
    /\ whatsapp_adapter = NoSend

\* defaultdict(list): every key reads as an empty list until written.
EmptyStore == [u \in Users |-> << >>]

Init ==
    /\ user_histories = EmptyStore
    /\ CONV_HISTORY = EmptyStore
    /\ frame = [t \in Threads |-> IdleFrame]
    /\ received = << >>
    /\ appended = [s \in {"assistant", "service"} |-> EmptyStore]
    /\ CollaboratorsAtRest

\* An inbound message as first received: who from, which handler, and
\* nothing yet of its completion call ("none", then "ok" or "raised"), of
\* the texts sent to the user for it (ChatAssistant) or returned for it to
\* the caller (openai_service), and of how its handler ended ("running",
\* then "returned" or "raised").
Inbound(u, fn) ==
    [wa_id |-> u, fn |-> fn, completion |-> "none", reply |-> << >>,
     ended |-> "running"]

\* Thread t, free (may), takes the next inbound message, from user u, into fn.
Accept(t, u, fn, pc0, may, caption, system_message) ==
    /\ frame[t].pc = "idle"
    /\ may
    /\ received' = Append(received, Inbound(u, fn))
    /\ frame' = [frame EXCEPT ![t] =
            [IdleFrame EXCEPT !.pc = pc0, !.fn = fn, !.wa_id = u,
                              !.msg = Len(received) + 1, !.caption = caption,
                              !.system_message_arg = system_message]]

\* A sequential specification takes up to MaxMsgs messages, one at a time.
MaySeq == Len(received) < MaxMsgs

\* The handler of thread t ends: its locals are gone.
Ended(t, how) ==
    /\ frame' = [frame EXCEPT ![t] = IdleFrame]
    /\ received' = [received EXCEPT ![frame[t].msg].ended = how]

\* A variant in which the handler returns without sending the text.
return_without_send(t, text) ==
    /\ frame' = [frame EXCEPT ![t] = IdleFrame]
    /\ received' = [received EXCEPT ![frame[t].msg].ended = "returned"]

\* whatsapp_adapter.send_text_message(wa_id, text), then the handler returns.
SendAndReturn(t, text) ==
    /\ frame' = [frame EXCEPT ![t] = IdleFrame]
    /\ received' = [received EXCEPT ![frame[t].msg].reply = Append(@, text),
                                    ![frame[t].msg].ended = "returned"]

\* ------------------------------------------------- completion backend
\* What chat.completions.create can do for the message m being answered:
\* raise, or return a choice whose content is None, "", white space, a
\* reply, or a reply padded with white space.
ReplyToken(m) == <<"r1", "r2", "r3", "r4", "r5", "r6">>[m]
Raises == [raises |-> TRUE, content |-> None]
Returns(content) == [raises |-> FALSE, content |-> content]
BackendResponses(m) ==
    {Raises, Returns(None), Returns(Some(NoStr)), Returns(Some(<<SP>>)),
     Returns(Some(<<ReplyToken(m)>>)), Returns(Some(<<SP, ReplyToken(m), SP>>))}

NOT_SURE_REPLY == <<"I received that, but I'm not sure how to respond just yet.">>
ERROR_REPLY == <<"I encountered an issue trying to process your request. Please try again.">>

\* A variant with one fallback text for a call that raised and for an empty
\* content.
get_chat_completion_one_fallback(resp) ==
    IF resp.raises \/ ~Truthy(resp.content) THEN ERROR_REPLY
    ELSE Strip(resp.content.s)

\* LLMProvider.get_chat_completion: the str it returns for a backend response.
get_chat_completion(resp) ==
    IF resp.raises THEN ERROR_REPLY
    ELSE LET assistant_text == IF Truthy(resp.content) THEN resp.content.s ELSE NoStr
         IN  IF assistant_text # NoStr THEN Strip(assistant_text) ELSE NOT_SURE_REPLY

\* --------------------------------------------------- WhatsAppPromptBuilder
default_text_system_prompt(name) ==
    <<"You are a helpful, concise assistant chatting on WhatsApp with ">> \o name
        \o <<". Keep answers short and conversational.">>

default_image_system_prompt(name) ==
    <<"You are a helpful, concise assistant chatting on WhatsApp with ">> \o name
        \o <<". The user has sent an image. Describe it briefly if you can, and respond to their caption or the image context. If you cannot process or describe the image, acknowledge it gracefully.">>

\* A variant that leaves the history out of the prompt.
build_text_prompt_without_history(name, text_body, history) ==
    <<Turn("system", StrContent(default_text_system_prompt(name))),
      Turn("user", StrContent(text_body))>>

\* A variant that puts the system turn after the history.
build_text_prompt_system_last(name, text_body, history) ==
    history
        \o <<Turn("system", StrContent(default_text_system_prompt(name)))>>
        \o <<Turn("user", StrContent(text_body))>>

build_text_prompt(name, text_body, history) ==
    <<Turn("system", StrContent(default_text_system_prompt(name)))>>
        \o history
        \o <<Turn("user", StrContent(text_body))>>

\* A variant that takes every caption other than None as a caption.
image_text_prompt_content_unless_none(name, caption) ==
    <<"Image received from ">> \o name \o <<".">>
        \o (IF ~caption.none
            THEN <<" The caption is: '">> \o caption.s \o <<"'.">>
            ELSE <<" There was no caption.">>)

\* The text part of an image message: the caption, or that there is none.
image_text_prompt_content(name, caption) ==
    <<"Image received from ">> \o name \o <<".">>
        \o (IF Truthy(caption)
            THEN <<" The caption is: '">> \o caption.s \o <<"'.">>
            ELSE <<" There was no caption.">>)

image_user_parts(name, image_data_url, caption) ==
    <<Part("text", image_text_prompt_content(name, caption)),
      Part("image_url", image_data_url)>>

build_image_prompt(name, image_data_url, caption, history) ==
    <<Turn("system", StrContent(default_image_system_prompt(name)))>>
        \o history
        \o <<Turn("user", PartsContent(image_user_parts(name, image_data_url, caption)))>>


\* ------------------------------------------------------- media retrieval
\* get_media_info: None, or a dict whose "url" and "mime_type" may be empty.
NoMediaInfo == [none |-> TRUE, url |-> NoStr, mime_type |-> NoStr]
MediaInfo(url, mime_type) == [none |-> FALSE, url |-> url, mime_type |-> mime_type]
MediaInfos(m) ==
    {NoMediaInfo,
     MediaInfo(NoStr, <<"image/jpeg">>),
     MediaInfo(<<"https://media/", MsgToken(m)>>, NoStr),
     MediaInfo(<<"https://media/", MsgToken(m)>>, <<"image/jpeg">>)}

\* download_media_content: None, b"", or the bytes of the image.
Downloads(m) == {None, Some(NoStr), Some(<<"bytes-of-", MsgToken(m)>>)}

\* base64.b64encode(image_bytes).decode('utf-8')
b64encode(image_bytes) == <<"b64(">> \o image_bytes \o <<")">>

\* f"data:{mime_type};base64,{base64_image}"
make_data_url(mime_type, image_bytes) ==
    <<"data:">> \o mime_type \o <<";base64,">> \o b64encode(image_bytes)

\* The captions an image message can carry: none, an empty one, a text.
Captions == {None, Some(NoStr), Some(<<"cap">>)}

NO_MEDIA_INFO == <<"I'm sorry, I couldn't retrieve information about the image you sent.">>
MEDIA_INCOMPLETE == <<"I'm sorry, there was an issue getting the details for your image.">>
NO_DOWNLOAD == <<"I'm sorry, I couldn't download the image you sent.">>

\* A variant that asks only for the url of the media info.
media_info_apology_url_only(media_info) ==
    IF media_info.none THEN NO_MEDIA_INFO
    ELSE IF media_info.url = NoStr THEN MEDIA_INCOMPLETE
    ELSE NoStr

\* The checks on the media info (assistant.py 88-100, openai_service.py
\* 319-328): the apology to give, or "" when the info is complete.
media_info_apology(media_info) ==
    IF media_info.none THEN NO_MEDIA_INFO
    ELSE IF media_info.url = NoStr \/ media_info.mime_type = NoStr
    THEN MEDIA_INCOMPLETE
    ELSE NoStr

\* ---------------------------------------------------------- ChatAssistant
\* A reference to a list: live while the store still holds that list object,
\* and the list as it was once the store's entry has been reassigned.
Deref(store, u, ref) == IF ref.live THEN store[u] ELSE ref.val

\* Reassigning store[u] leaves every other thread's reference to the old
\* list of u pointing at the old list.
Detach(fr, t, u, old) ==
    [x \in Threads |->
        IF x # t /\ fr[x].wa_id = u /\ fr[x].current_history.live
        THEN [fr[x] EXCEPT !.current_history = [live |-> FALSE, val |-> old]]
        ELSE fr[x]]

\* Variants of the operators below, for testing what the properties detect:
\* a slice one entry longer, a slice of the oldest entries, a copy of another
\* user's list.
keep_one_more(current_history) == LastN(current_history, max_history_turns * 2 + 1)
keep_oldest(current_history) ==
    SubSeq(current_history, 1, max_history_turns * 2)
snapshot_of_other(store, u) == store[CHOOSE v \in Users : v # u]

\* list(self.user_histories[wa_id]): a copy of the user's list.
snapshot(store, u) == store[u]

\* current_history[-(self.max_history_turns * 2):]
keep_most_recent(current_history) == LastN(current_history, max_history_turns * 2)

\* len(current_history) > self.max_history_turns * 2
\* A variant that lets the list grow one entry past the bound.
over_limit_late(current_history) == Len(current_history) > max_history_turns * 2 + 1

over_limit(current_history) == Len(current_history) > max_history_turns * 2

\* Thread t calls self._append_to_history(wa_id, role, content), to go on at ret.
CallAppend(fr, t, role, content, ret) ==
    [fr EXCEPT ![t].pc = "a_append", ![t].role = role, ![t].content = content,
               ![t].ret = ret]

\* _append_to_history, line 36: self.user_histories[wa_id].append(...)
A_Append(t) ==
    /\ frame[t].pc = "a_append"
    /\ LET u == frame[t].wa_id
           turn == Turn(frame[t].role, frame[t].content)
       IN  /\ user_histories' = [user_histories EXCEPT ![u] = Append(@, turn)]
           /\ appended' = [appended EXCEPT !["assistant"][u] = Append(@, turn)]
    /\ frame' = [frame EXCEPT ![t].pc = "a_check"]
    /\ UNCHANGED <<CONV_HISTORY, received, collaborators>>

\* _append_to_history, lines 37-39: take the reference, test its length.
A_Check(t) ==
    /\ frame[t].pc = "a_check"
    /\ IF over_limit(user_histories[frame[t].wa_id])
       THEN frame' = [frame EXCEPT
                ![t].current_history = [live |-> TRUE, val |-> << >>],
                ![t].pc = "a_slice"]
       ELSE frame' = [frame EXCEPT ![t].pc = frame[t].ret]
    /\ UNCHANGED <<user_histories, CONV_HISTORY, received, appended, collaborators>>

\* _append_to_history, line 41, right-hand side: the slice, a new list.
A_Slice(t) ==
    /\ frame[t].pc = "a_slice"
    /\ frame' = [frame EXCEPT
            ![t].new_list = keep_most_recent(
                Deref(user_histories, frame[t].wa_id, frame[t].current_history)),
            ![t].current_history = NoRef,
            ![t].pc = "a_store"]
    /\ UNCHANGED <<user_histories, CONV_HISTORY, received, appended, collaborators>>

\* _append_to_history, line 41, the assignment to self.user_histories[wa_id].
A_Store(t) ==
    /\ frame[t].pc = "a_store"
    /\ LET u == frame[t].wa_id
       IN  /\ user_histories' = [user_histories EXCEPT ![u] = frame[t].new_list]
           /\ frame' = [Detach(frame, t, u, user_histories[u])
                            EXCEPT ![t].pc = frame[t].ret, ![t].new_list = << >>]
    /\ UNCHANGED <<CONV_HISTORY, received, appended, collaborators>>

\* The completion call of thread t through LLMProvider.get_chat_completion.
CompletionCall(t, resp, next) ==
    /\ received' = [received EXCEPT ![frame[t].msg].completion =
                        IF resp.raises THEN "raised" ELSE "ok"]
    /\ frame' = [frame EXCEPT ![t].llm_reply_text = get_chat_completion(resp),
                              ![t].pc = next]

TEXT_TROUBLE == <<"I'm having a little trouble thinking right now. Please try again later.">>
IMAGE_TROUBLE == <<"I'm having a little trouble thinking about that image. Please try again later.">>

\* handle_text_message is called with the next inbound text message.
HT_Start(t, u, may) ==
    /\ Accept(t, u, "handle_text_message", "ht_build", may, None, None)
    /\ UNCHANGED <<user_histories, CONV_HISTORY, appended, collaborators>>

\* handle_text_message, lines 53-59: copy the history, build the prompt,
\* call _append_to_history for the user turn.
HT_Build(t) ==
    /\ frame[t].pc = "ht_build"
    /\ LET u == frame[t].wa_id
           text_body == MsgText(frame[t].msg)
           history_for_prompt == snapshot(user_histories, u)
           fr == [frame EXCEPT
                    ![t].history_for_prompt = history_for_prompt,
                    ![t].messages_payload =
                        build_text_prompt(NameOf(u), text_body, history_for_prompt)]
       IN  frame' = CallAppend(fr, t, "user", StrContent(text_body), "ht_llm")
    /\ UNCHANGED <<user_histories, CONV_HISTORY, received, appended, collaborators>>

\* handle_text_message, line 61: the completion call.
HT_Completion(t) ==
    /\ frame[t].pc = "ht_llm"
    /\ \E resp \in BackendResponses(frame[t].msg) : CompletionCall(t, resp, "ht_reply")
    /\ UNCHANGED <<user_histories, CONV_HISTORY, appended, collaborators>>

\* handle_text_message, lines 63-72: record the reply, or send the apology
\* when the reply is empty.
HT_Reply(t) ==
    /\ frame[t].pc = "ht_reply"
    /\ IF frame[t].llm_reply_text # NoStr
       THEN /\ frame' = CallAppend(frame, t, "assistant",
                            StrContent(frame[t].llm_reply_text), "ht_send")
            /\ UNCHANGED received
       ELSE SendAndReturn(t, TEXT_TROUBLE)
    /\ UNCHANGED <<user_histories, CONV_HISTORY, appended, collaborators>>

\* handle_text_message, lines 65-66: send the reply.
HT_Send(t) ==
    /\ frame[t].pc = "ht_send"
    /\ SendAndReturn(t, frame[t].llm_reply_text)
    /\ UNCHANGED <<user_histories, CONV_HISTORY, appended, collaborators>>

\* handle_image_message is called with the next inbound image message.
HI_Start(t, u, caption, may) ==
    /\ Accept(t, u, "handle_image_message", "hi_media", may, caption, None)
    /\ UNCHANGED <<user_histories, CONV_HISTORY, appended, collaborators>>

\* handle_image_message, lines 87-100: the media info, or an apology.
HI_MediaInfo(t) ==
    /\ frame[t].pc = "hi_media"
    /\ \E media_info \in MediaInfos(frame[t].msg) :
          IF media_info_apology(media_info) # NoStr
          THEN SendAndReturn(t, media_info_apology(media_info))
          ELSE /\ frame' = [frame EXCEPT ![t].mime_type = media_info.mime_type,
                                         ![t].pc = "hi_download"]
               /\ UNCHANGED received
    /\ UNCHANGED <<user_histories, CONV_HISTORY, appended, collaborators>>

\* handle_image_message, lines 102-110: the image bytes as a data URL, or
\* an apology.
HI_Download(t) ==
    /\ frame[t].pc = "hi_download"
    /\ \E image_bytes \in Downloads(frame[t].msg) :
          IF ~Truthy(image_bytes)
          THEN SendAndReturn(t, NO_DOWNLOAD)
          ELSE /\ frame' = [frame EXCEPT
                        ![t].data_url = make_data_url(frame[t].mime_type, image_bytes.s),
                        ![t].pc = "hi_build"]
               /\ UNCHANGED received
    /\ UNCHANGED <<user_histories, CONV_HISTORY, appended, collaborators>>

\* handle_image_message, lines 112-132: copy the history, build the prompt,
\* call _append_to_history for the user turn (the prompt's last content).
HI_Build(t) ==
    /\ frame[t].pc = "hi_build"
    /\ LET u == frame[t].wa_id
           history_for_prompt == snapshot(user_histories, u)
           messages_payload ==
               build_image_prompt(NameOf(u), frame[t].data_url, frame[t].caption,
                                  history_for_prompt)
           fr == [frame EXCEPT ![t].history_for_prompt = history_for_prompt,
                               ![t].messages_payload = messages_payload]
       IN  frame' = CallAppend(fr, t, "user",
                        messages_payload[Len(messages_payload)].content, "hi_llm")
    /\ UNCHANGED <<user_histories, CONV_HISTORY, received, appended, collaborators>>

\* handle_image_message, line 134: the completion call.
HI_Completion(t) ==
    /\ frame[t].pc = "hi_llm"
    /\ \E resp \in BackendResponses(frame[t].msg) : CompletionCall(t, resp, "hi_reply")
    /\ UNCHANGED <<user_histories, CONV_HISTORY, appended, collaborators>>

\* handle_image_message, lines 136-145: record the reply, or send the
\* apology when the reply is empty.
HI_Reply(t) ==
    /\ frame[t].pc = "hi_reply"
    /\ IF frame[t].llm_reply_text # NoStr
       THEN /\ frame' = CallAppend(frame, t, "assistant",
                            StrContent(frame[t].llm_reply_text), "hi_send")
            /\ UNCHANGED received
       ELSE SendAndReturn(t, IMAGE_TROUBLE)
    /\ UNCHANGED <<user_histories, CONV_HISTORY, appended, collaborators>>

\* handle_image_message, lines 138-139: send the reply.
HI_Send(t) ==
    /\ frame[t].pc = "hi_send"
    /\ SendAndReturn(t, frame[t].llm_reply_text)
    /\ UNCHANGED <<user_histories, CONV_HISTORY, appended, collaborators>>

\* One step of ChatAssistant._append_to_history.
AppendStep(t) == A_Append(t) \/ A_Check(t) \/ A_Slice(t) \/ A_Store(t)

TextStep(t) == HT_Build(t) \/ HT_Completion(t) \/ HT_Reply(t) \/ HT_Send(t)

ImageStep(t) ==
    \/ HI_MediaInfo(t) \/ HI_Download(t) \/ HI_Build(t)
    \/ HI_Completion(t) \/ HI_Reply(t) \/ HI_Send(t)

\* One ChatAssistant that lives on, its handlers called one after the other.
NextAssistant ==
    \/ \E u \in SeqUsers : HT_Start(1, u, MaySeq)
    \/ \E u \in SeqUsers, caption \in Captions : HI_Start(1, u, caption, MaySeq)
    \/ TextStep(1)
    \/ ImageStep(1)
    \/ AppendStep(1)

SpecAssistant == Init /\ [][NextAssistant]_vars

\* --------------------------------------------------------- openai_service
\* len(_CONV_HISTORY[wa_id]) - _MAX_TURNS * 2
\* A variant that counts the excess over half the bound.
excess_over_half(history) == Len(history) - MAX_TURNS

history_excess(history) == Len(history) - MAX_TURNS * 2

\* _CONV_HISTORY[wa_id][excess:]
drop_excess(history, excess) == DropFirst(history, excess)

\* Thread t calls _append_to_history(wa_id, role, content), to go on at ret.
CallAppendS(fr, t, role, content, ret) ==
    [fr EXCEPT ![t].pc = "s_append", ![t].role = role, ![t].content = content,
               ![t].ret = ret]

\* _append_to_history, line 183: _CONV_HISTORY[wa_id].append(...)
S_Append(t) ==
    /\ frame[t].pc = "s_append"
    /\ LET u == frame[t].wa_id
           turn == Turn(frame[t].role, frame[t].content)
       IN  /\ CONV_HISTORY' = [CONV_HISTORY EXCEPT ![u] = Append(@, turn)]
           /\ appended' = [appended EXCEPT !["service"][u] = Append(@, turn)]
    /\ frame' = [frame EXCEPT ![t].pc = "s_excess"]
    /\ UNCHANGED <<user_histories, received, collaborators>>

\* _append_to_history, lines 184-185: excess, and whether to trim.
S_Excess(t) ==
    /\ frame[t].pc = "s_excess"
    /\ LET excess == history_excess(CONV_HISTORY[frame[t].wa_id])
       IN  IF excess > 0
           THEN frame' = [frame EXCEPT ![t].excess = excess, ![t].pc = "s_slice"]
           ELSE frame' = [frame EXCEPT ![t].pc = frame[t].ret]
    /\ UNCHANGED <<user_histories, CONV_HISTORY, received, appended, collaborators>>

\* _append_to_history, line 186, right-hand side: the slice, a new list.
S_Slice(t) ==
    /\ frame[t].pc = "s_slice"
    /\ frame' = [frame EXCEPT
            ![t].new_list = drop_excess(CONV_HISTORY[frame[t].wa_id], frame[t].excess),
            ![t].pc = "s_store"]
    /\ UNCHANGED <<user_histories, CONV_HISTORY, received, appended, collaborators>>

\* _append_to_history, line 186, the assignment to _CONV_HISTORY[wa_id].
S_Store(t) ==
    /\ frame[t].pc = "s_store"
    /\ CONV_HISTORY' = [CONV_HISTORY EXCEPT ![frame[t].wa_id] = frame[t].new_list]
    /\ frame' = [frame EXCEPT ![t].pc = frame[t].ret, ![t].new_list = << >>,
                              ![t].excess = 0]
    /\ UNCHANGED <<user_histories, received, appended, collaborators>>

\* The system_message whatsapp_utils.process_whatsapp_message passes (line 98).
TECH_SUPPORT == <<"You are a helpful but concise tech support for elderlies in Singapore">>

\* The system_message arguments: left out (None), or the caller's.
SystemMessages == {None, Some(TECH_SUPPORT)}

\* lines 213-217 and 350-356: the directive, given or the handler's default.
resolve_system_message(system_message, default) ==
    IF system_message.none THEN default ELSE system_message.s

\* A variant that puts a new system turn in front of the list.
prepend_system(history, system_message) ==
    <<Turn("system", StrContent(system_message))>> \o history

\* history[0]["content"] = system_message
set_system_content(history, system_message) ==
    [history EXCEPT ![1].content = StrContent(system_message)]

\* generate_response is called with the next inbound text message.
GR_Start(t, u, system_message, may) ==
    /\ Accept(t, u, "generate_response", "gr_system", may, None, system_message)
    /\ UNCHANGED <<user_histories, CONV_HISTORY, appended, collaborators>>

\* generate_response, lines 213-221: resolve the directive and choose the
\* branch: seed an empty history, update a leading system turn, or neither.
GR_System(t) ==
    /\ frame[t].pc = "gr_system"
    /\ LET u == frame[t].wa_id
           sm == resolve_system_message(frame[t].system_message_arg,
                                        default_text_system_prompt(NameOf(u)))
           branch == IF CONV_HISTORY[u] = << >> THEN "seed"
                     ELSE IF CONV_HISTORY[u][1].role = "system" THEN "update"
                     ELSE "skip"
           fr == [frame EXCEPT ![t].system_message = sm, ![t].branch = branch]
       IN  IF branch = "skip"
           THEN frame' = CallAppendS(fr, t, "user",
                            StrContent(MsgText(frame[t].msg)), "gr_llm")
           ELSE frame' = [fr EXCEPT ![t].pc = "gr_syswrite"]
    /\ UNCHANGED <<user_histories, CONV_HISTORY, received, appended, collaborators>>

\* generate_response, line 220 or 222, then line 225: the call of
\* _append_to_history for the user turn.
GR_SysWrite(t) ==
    /\ frame[t].pc = "gr_syswrite"
    /\ LET u == frame[t].wa_id
           system == Turn("system", StrContent(frame[t].system_message))
       IN  IF frame[t].branch = "seed"
           THEN /\ CONV_HISTORY' = [CONV_HISTORY EXCEPT ![u] = Append(@, system)]
                /\ appended' = [appended EXCEPT !["service"][u] = Append(@, system)]
           ELSE /\ CONV_HISTORY' = [CONV_HISTORY EXCEPT ![u] =
                        set_system_content(@, frame[t].system_message)]
                /\ UNCHANGED appended
    /\ frame' = CallAppendS(frame, t, "user", StrContent(MsgText(frame[t].msg)), "gr_llm")
    /\ UNCHANGED <<user_histories, received, collaborators>>

\* generate_response, lines 228-238: the completion call, outside any try.
\* A call that raises, or a content of None (None.strip()), raises out of
\* generate_response; otherwise the stripped content is the assistant text.
GR_Completion(t) ==
    /\ frame[t].pc = "gr_llm"
    /\ \E resp \in BackendResponses(frame[t].msg) :
          IF resp.raises \/ resp.content.none
          THEN /\ frame' = [frame EXCEPT ![t] = IdleFrame]
               /\ received' = [received EXCEPT
                      ![frame[t].msg].completion = IF resp.raises THEN "raised" ELSE "ok",
                      ![frame[t].msg].ended = "raised"]
          ELSE /\ received' = [received EXCEPT ![frame[t].msg].completion = "ok"]
               /\ LET assistant_text == Strip(resp.content.s)
                      fr == [frame EXCEPT ![t].assistant_text = assistant_text,
                                          ![t].messages_payload =
                                              CONV_HISTORY[frame[t].wa_id]]
                  IN  frame' = CallAppendS(fr, t, "assistant",
                                   StrContent(assistant_text), "gr_return")
    /\ UNCHANGED <<user_histories, CONV_HISTORY, appended, collaborators>>

\* generate_response, line 240: return assistant_text.
GR_Return(t) ==
    /\ frame[t].pc = "gr_return"
    /\ SendAndReturn(t, frame[t].assistant_text)
    /\ UNCHANGED <<user_histories, CONV_HISTORY, appended, collaborators>>

NOTHING_TO_ADD == <<"I received the image, but I don't have anything specific to add.">>
IMAGE_ERROR_REPLY == <<"I encountered an issue trying to process that. Please try again.">>

\* generate_image_response is called with the next inbound image message.
GI_Start(t, u, caption, system_message, may) ==
    /\ Accept(t, u, "generate_image_response", "gi_media", may, caption, system_message)
    /\ UNCHANGED <<user_histories, CONV_HISTORY, appended, collaborators>>

\* generate_image_response, lines 318-328: the media info, or an apology.
GI_MediaInfo(t) ==
    /\ frame[t].pc = "gi_media"
    /\ \E media_info \in MediaInfos(frame[t].msg) :
          IF media_info_apology(media_info) # NoStr
          THEN SendAndReturn(t, media_info_apology(media_info))
          ELSE /\ frame' = [frame EXCEPT ![t].mime_type = media_info.mime_type,
                                         ![t].pc = "gi_download"]
               /\ UNCHANGED received
    /\ UNCHANGED <<user_histories, CONV_HISTORY, appended, collaborators>>

\* generate_image_response, lines 330-347: the image bytes as a data URL and
\* the parts of the user message, or an apology.
GI_Download(t) ==
    /\ frame[t].pc = "gi_download"
    /\ \E image_bytes \in Downloads(frame[t].msg) :
          IF ~Truthy(image_bytes)
          THEN SendAndReturn(t, NO_DOWNLOAD)
          ELSE /\ LET data_url == make_data_url(frame[t].mime_type, image_bytes.s)
                  IN  frame' = [frame EXCEPT
                          ![t].data_url = data_url,
                          ![t].user_message_parts =
                              image_user_parts(NameOf(frame[t].wa_id), data_url,
                                               frame[t].caption),
                          ![t].pc = "gi_system"]
               /\ UNCHANGED received
    /\ UNCHANGED <<user_histories, CONV_HISTORY, appended, collaborators>>

\* generate_image_response, lines 350-358: resolve the directive and choose
\* the branch: insert a system turn in front, or update the leading one.
GI_System(t) ==
    /\ frame[t].pc = "gi_system"
    /\ LET u == frame[t].wa_id
           sm == resolve_system_message(frame[t].system_message_arg,
                                        default_image_system_prompt(NameOf(u)))
           branch == IF CONV_HISTORY[u] = << >> \/ CONV_HISTORY[u][1].role # "system"
                     THEN "insert" ELSE "update"
       IN  frame' = [frame EXCEPT ![t].system_message = sm, ![t].branch = branch,
                                  ![t].pc = "gi_syswrite"]
    /\ UNCHANGED <<user_histories, CONV_HISTORY, received, appended, collaborators>>

\* A variant that inserts after the first entry.
insert_1(history, turn) ==
    IF history = << >> THEN <<turn>>
    ELSE <<history[1], turn>> \o DropFirst(history, 1)

\* _CONV_HISTORY[wa_id].insert(0, turn)
insert_0(history, turn) == <<turn>> \o history

\* generate_image_response, line 359 or 361.
GI_SysWrite(t) ==
    /\ frame[t].pc = "gi_syswrite"
    /\ LET u == frame[t].wa_id
           system == Turn("system", StrContent(frame[t].system_message))
       IN  IF frame[t].branch = "insert"
           THEN /\ CONV_HISTORY' = [CONV_HISTORY EXCEPT ![u] = insert_0(@, system)]
                /\ appended' = [appended EXCEPT !["service"][u] = Append(@, system)]
           ELSE /\ CONV_HISTORY' = [CONV_HISTORY EXCEPT ![u] =
                        set_system_content(@, frame[t].system_message)]
                /\ UNCHANGED appended
    /\ frame' = [frame EXCEPT ![t].pc = "gi_trim"]
    /\ UNCHANGED <<user_histories, received, collaborators>>

\* len(_CONV_HISTORY[wa_id]) >= 1 + 1 + _MAX_TURNS * 2
trim_needed(history) == Len(history) >= 1 + 1 + MAX_TURNS * 2

\* A variant that pops the last entry.
pop_last(history) == SubSeq(history, 1, Len(history) - 1)

\* _CONV_HISTORY[wa_id].pop(1)
pop_1(history) == <<history[1]>> \o DropFirst(history, 2)

\* generate_image_response, lines 366-370: one test of the loop, with one
\* pop(1) when it passes.
GI_Trim(t) ==
    /\ frame[t].pc = "gi_trim"
    /\ LET u == frame[t].wa_id
       IN  IF trim_needed(CONV_HISTORY[u]) /\ Len(CONV_HISTORY[u]) > 1
           THEN /\ CONV_HISTORY' = [CONV_HISTORY EXCEPT ![u] = pop_1(@)]
                /\ UNCHANGED frame
           ELSE /\ frame' = [frame EXCEPT ![t].pc = "gi_append"]
                /\ UNCHANGED CONV_HISTORY
    /\ UNCHANGED <<user_histories, received, appended, collaborators>>

\* generate_image_response, line 373: the user turn, appended directly.
GI_AppendUser(t) ==
    /\ frame[t].pc = "gi_append"
    /\ LET u == frame[t].wa_id
           turn == Turn("user", PartsContent(frame[t].user_message_parts))
       IN  /\ CONV_HISTORY' = [CONV_HISTORY EXCEPT ![u] = Append(@, turn)]
           /\ appended' = [appended EXCEPT !["service"][u] = Append(@, turn)]
    /\ frame' = [frame EXCEPT ![t].pc = "gi_llm"]
    /\ UNCHANGED <<user_histories, received, collaborators>>

\* generate_image_response, lines 384 and 387: the assistant text.
image_assistant_text(resp) ==
    IF resp.raises THEN IMAGE_ERROR_REPLY
    ELSE IF Truthy(resp.content) THEN Strip(resp.content.s) ELSE NOTHING_TO_ADD

\* generate_image_response, lines 377-391: the completion call inside try,
\* then the call of _append_to_history for the assistant turn.
GI_Completion(t) ==
    /\ frame[t].pc = "gi_llm"
    /\ \E resp \in BackendResponses(frame[t].msg) :
          /\ received' = [received EXCEPT ![frame[t].msg].completion =
                              IF resp.raises THEN "raised" ELSE "ok"]
          /\ LET assistant_text == image_assistant_text(resp)
                 fr == [frame EXCEPT ![t].assistant_text = assistant_text,
                                     ![t].messages_payload =
                                         CONV_HISTORY[frame[t].wa_id]]
             IN  frame' = CallAppendS(fr, t, "assistant",
                              StrContent(assistant_text), "gi_return")
    /\ UNCHANGED <<user_histories, CONV_HISTORY, appended, collaborators>>

\* generate_image_response, line 393: return assistant_text.
GI_Return(t) ==
    /\ frame[t].pc = "gi_return"
    /\ SendAndReturn(t, frame[t].assistant_text)
    /\ UNCHANGED <<user_histories, CONV_HISTORY, appended, collaborators>>

\* One step of openai_service._append_to_history.
ServiceAppendStep(t) == S_Append(t) \/ S_Excess(t) \/ S_Slice(t) \/ S_Store(t)

ResponseStep(t) ==
    GR_System(t) \/ GR_SysWrite(t) \/ GR_Completion(t) \/ GR_Return(t)

ImageResponseStep(t) ==
    \/ GI_MediaInfo(t) \/ GI_Download(t) \/ GI_System(t) \/ GI_SysWrite(t)
    \/ GI_Trim(t) \/ GI_AppendUser(t) \/ GI_Completion(t) \/ GI_Return(t)

\* openai_service, its functions called one after the other.
NextService ==
    \/ \E u \in SeqUsers, sm \in SystemMessages : GR_Start(1, u, sm, MaySeq)
    \/ \E u \in SeqUsers, caption \in Captions : GI_Start(1, u, caption, None, MaySeq)
    \/ ResponseStep(1)
    \/ ImageResponseStep(1)
    \/ ServiceAppendStep(1)

SpecService == Init /\ [][NextService]_vars

\* -------------------------------------- app/bot/utils.py, the webhook's entry
\* process_whatsapp_message, lines 24-33: a new ChatAssistant (its
\* user_histories an empty defaultdict), then handle_text_message.
PWM_Text(t, u, may) ==
    /\ Accept(t, u, "handle_text_message", "ht_build", may, None, None)
    /\ user_histories' = EmptyStore
    /\ UNCHANGED <<CONV_HISTORY, appended, collaborators>>

\* process_whatsapp_message, lines 24 and 34-45: a new ChatAssistant, then
\* handle_image_message.
PWM_Image(t, u, caption, may) ==
    /\ Accept(t, u, "handle_image_message", "hi_media", may, caption, None)
    /\ user_histories' = EmptyStore
    /\ UNCHANGED <<CONV_HISTORY, appended, collaborators>>

\* A variant that hands a message of another type to handle_text_message.
PWM_Unsupported_to_text(t, u, may) ==
    /\ Accept(t, u, "unsupported", "ht_build", may, None, None)
    /\ user_histories' = EmptyStore
    /\ UNCHANGED <<CONV_HISTORY, appended, collaborators>>

\* process_whatsapp_message, lines 24 and 46-52: a new ChatAssistant, and
\* a message of another type is logged and dropped.
PWM_Unsupported(t, u, may) ==
    /\ frame[t].pc = "idle"
    /\ may
    /\ received' = Append(received,
            [Inbound(u, "unsupported") EXCEPT !.ended = "returned"])
    /\ user_histories' = EmptyStore
    /\ UNCHANGED <<CONV_HISTORY, frame, appended, collaborators>>

\* The webhook's messages, handled one after the other.  A new instance's
\* list never passes the limit, so lines 40-41 of _append_to_history are
\* not reached here.
NextBot ==
    \/ \E u \in SeqUsers : PWM_Text(1, u, MaySeq)
    \/ \E u \in SeqUsers, caption \in Captions : PWM_Image(1, u, caption, MaySeq)
    \/ \E u \in SeqUsers : PWM_Unsupported(1, u, MaySeq)
    \/ TextStep(1)
    \/ ImageStep(1)
    \/ A_Append(1)
    \/ A_Check(1)

SpecBot == Init /\ [][NextBot]_vars

\* ------------------------- app/utils/whatsapp_utils.py, the older entry
IMAGE_RECEIVED == <<"I've received your image.">>
CANNOT_ANALYZE == <<" I can't analyze images yet, but thanks for sending it!">>
UNSUPPORTED_REPLY ==
    <<"Sorry, I can only process text messages and acknowledge images at the moment.">>

\* lines 109-112: the text that acknowledges an image.
image_acknowledgement(caption) ==
    IMAGE_RECEIVED
        \o (IF Truthy(caption)
            THEN <<" You said: \"">> \o caption.s \o <<"\". ">>
            ELSE << >>)
        \o CANNOT_ANALYZE

\* A message answered with a text, without a handler of the conversation.
AnswerDirectly(t, u, kind, text, may) ==
    /\ frame[t].pc = "idle"
    /\ may
    /\ received' = Append(received,
            [Inbound(u, kind) EXCEPT !.reply = <<text>>, !.ended = "returned"])
    /\ UNCHANGED <<user_histories, CONV_HISTORY, frame, appended, collaborators>>

\* process_whatsapp_message, lines 90-100: generate_response with the
\* tech-support directive.
PWU_Text(t, u, may) == GR_Start(t, u, Some(TECH_SUPPORT), may)

\* process_whatsapp_message, lines 101-112: an image is acknowledged.
PWU_Image(t, u, caption, may) ==
    AnswerDirectly(t, u, "acknowledge_image", image_acknowledgement(caption), may)

\* process_whatsapp_message, lines 113-119: another type is told sorry.
PWU_Unsupported(t, u, may) ==
    AnswerDirectly(t, u, "unsupported", UNSUPPORTED_REPLY, may)

NextUtils ==
    \/ \E u \in SeqUsers : PWU_Text(1, u, MaySeq)
    \/ \E u \in SeqUsers, caption \in Captions : PWU_Image(1, u, caption, MaySeq)
    \/ \E u \in SeqUsers : PWU_Unsupported(1, u, MaySeq)
    \/ ResponseStep(1)
    \/ S_Append(1)
    \/ S_Excess(1)
    \/ S_Slice(1)
    \/ S_Store(1)

\* The webhook's messages through either entry, one after the other.
NextEntry == NextBot \/ NextUtils

SpecEntry == Init /\ [][NextEntry]_vars

\* ------------------------------------------------------------ concurrency
\* Two request threads on one ChatAssistant and on openai_service, after
\* user A has had one exchange with each: message 1 through
\* handle_text_message, message 2 through generate_response.
ConcReceived ==
    <<[Inbound("A", "handle_text_message") EXCEPT
          !.completion = "ok", !.reply = <<<<ReplyToken(1)>>>>, !.ended = "returned"],
      [Inbound("A", "generate_response") EXCEPT
          !.completion = "ok", !.reply = <<<<ReplyToken(2)>>>>, !.ended = "returned"]>>

ConcAssistantA ==
    <<Turn("user", StrContent(MsgText(1))),
      Turn("assistant", StrContent(<<ReplyToken(1)>>))>>

ConcServiceA ==
    <<Turn("system", StrContent(TECH_SUPPORT)),
      Turn("user", StrContent(MsgText(2))),
      Turn("assistant", StrContent(<<ReplyToken(2)>>))>>

InitConcStore(s) ==
    [EmptyStore EXCEPT !["A"] = IF s = "assistant" THEN ConcAssistantA
                                ELSE ConcServiceA]

InitConc ==
    /\ user_histories = InitConcStore("assistant")
    /\ CONV_HISTORY = InitConcStore("service")
    /\ frame = [t \in Threads |-> IdleFrame]
    /\ received = ConcReceived
    /\ appended = [s \in {"assistant", "service"} |-> InitConcStore(s)]
    /\ CollaboratorsAtRest

\* One further message for each thread: a text or an image without caption,
\* the directive left to the handler's default.
MayConc == Len(received) < Len(ConcReceived) + Cardinality(Threads)

NextConc ==
    \E t \in Threads :
        \/ \E u \in Users : HT_Start(t, u, MayConc)
        \/ \E u \in Users, caption \in {None} : HI_Start(t, u, caption, MayConc)
        \/ \E u \in Users, sm \in {None} : GR_Start(t, u, sm, MayConc)
        \/ \E u \in Users, caption \in {None} : GI_Start(t, u, caption, None, MayConc)
        \/ TextStep(t)
        \/ ImageStep(t)
        \/ AppendStep(t)
        \/ ResponseStep(t)
        \/ ImageResponseStep(t)
        \/ ServiceAppendStep(t)

SpecConc == InitConc /\ [][NextConc]_vars

\* -------------------------------------------------------------- LLMProvider
\* The handlers' state when no message has come in yet.
HandlersAtRest ==
    /\ user_histories = EmptyStore
    /\ CONV_HISTORY = EmptyStore
    /\ frame = [t \in Threads |-> IdleFrame]
    /\ received = << >>
    /\ appended = [s \in {"assistant", "service"} |-> EmptyStore]

\* The environments.  CHAT_API_PROVIDER is unset, empty, a supported name in
\* upper or lower case, or another name; a required variable is unset,
\* empty or set.
Environs ==
    LET ProviderValues ==
            {None, Some(NoStr), Some(<<"OPENAI">>), Some(<<"openai">>),
             Some(<<"AZURE">>), Some(<<"VLLM">>), Some(<<"vllm">>), Some(<<"GEMINI">>)}
        VarValues == {None, Some(NoStr), Some(<<"value">>)}
    IN  {[var \in EnvVars |->
            IF var = "CHAT_API_PROVIDER" THEN provider ELSE required[var]] :
                provider \in ProviderValues, required \in [RequiredVars -> VarValues]}

\* os.getenv(var, default)
getenv(environ, var, default) ==
    IF environ[var].none THEN default ELSE environ[var].s

\* str.upper()
upper(s) ==
    [i \in 1..Len(s) |->
        CASE s[i] = "openai" -> "OPENAI"
          [] s[i] = "azure" -> "AZURE"
          [] s[i] = "vllm" -> "VLLM"
          [] OTHER -> s[i]]

\* The required_vars of the decorated _get_<provider>_config_internal.
required_vars(provider) ==
    CASE provider = <<"AZURE">> ->
            {"AZURE_OPENAI_ENDPOINT", "AZURE_OPENAI_API_KEY", "AZURE_OPENAI_DEPLOYMENT_NAME"}
      [] provider = <<"OPENAI">> -> {"OPENAI_API_KEY", "OPENAI_MODEL_NAME"}
      [] provider = <<"VLLM">> -> {"VLLM_API_BASE", "VLLM_MODEL_NAME"}
      [] OTHER -> {}

SupportedProviders == {<<"AZURE">>, <<"OPENAI">>, <<"VLLM">>}

\* A variant that takes only the unset variables as missing.
missing_vars_unset_only(environ, required) ==
    {var \in required : environ[var].none}

\* require_env_vars: [var for var in required_vars if not os.getenv(var)]
missing_vars(environ, required) ==
    {var \in required : ~Truthy(environ[var])}

\* config_data["client_class"]
client_class(provider) ==
    IF provider = <<"AZURE">> THEN "AzureOpenAI" ELSE "OpenAI"

\* _initialize_llm_client, line 91: the provider name.
LP_Provider ==
    /\ llm_provider.pc = "init"
    /\ llm_provider' =
          [llm_provider EXCEPT
              !.provider = upper(getenv(llm_provider.environ, "CHAT_API_PROVIDER",
                                        <<"OPENAI">>)),
              !.pc = "config"]
    /\ UNCHANGED <<user_histories, CONV_HISTORY, frame, received, appended,
                   request, whatsapp_adapter>>

\* _initialize_llm_client, lines 94-107: the configuration of the provider,
\* through require_env_vars, or ValueError for a name that is not supported.
LP_Config ==
    /\ llm_provider.pc = "config"
    /\ llm_provider' =
          IF llm_provider.provider \notin SupportedProviders
          THEN [llm_provider EXCEPT !.raised = "ValueError", !.pc = "raised"]
          ELSE IF missing_vars(llm_provider.environ,
                               required_vars(llm_provider.provider)) # {}
          THEN [llm_provider EXCEPT !.raised = "RuntimeError", !.pc = "raised"]
          ELSE [llm_provider EXCEPT !.pc = "client"]
    /\ UNCHANGED <<user_histories, CONV_HISTORY, frame, received, appended,
                   request, whatsapp_adapter>>

\* _initialize_llm_client, lines 109-112: the client is constructed.
LP_Client ==
    /\ llm_provider.pc = "client"
    /\ llm_provider' =
          [llm_provider EXCEPT !.client = client_class(llm_provider.provider),
                               !.pc = "ready"]
    /\ UNCHANGED <<user_histories, CONV_HISTORY, frame, received, appended,
                   request, whatsapp_adapter>>

\* get_chat_completion is called on the provider that __init__ returned.
LP_Completion ==
    /\ llm_provider.pc = "ready"
    /\ ~llm_provider.completion_called
    /\ llm_provider' = [llm_provider EXCEPT !.completion_called = TRUE]
    /\ UNCHANGED <<user_histories, CONV_HISTORY, frame, received, appended,
                   request, whatsapp_adapter>>

\* LLMProvider() is called in some environment.
InitProvider ==
    /\ HandlersAtRest
    /\ request = NoRequest
    /\ whatsapp_adapter = NoSend
    /\ \E environ \in Environs :
          llm_provider = [NoProvider EXCEPT !.environ = environ, !.pc = "init"]

NextProvider == LP_Provider \/ LP_Config \/ LP_Client \/ LP_Completion

SpecProvider == InitProvider /\ [][NextProvider]_vars

\* ------------------------------------------------------ signature_required
\* A str is a sequence of characters here, a hex digest one character.
Secrets == {<<"secret1">>, <<"secret2">>}

\* request.data: bytes that decode as UTF-8 to text, or that do not.
Bodies ==
    {[decodes |-> TRUE, text |-> <<"body1">>], [decodes |-> TRUE, text |-> <<"body2">>],
     [decodes |-> FALSE, text |-> NoStr]}

\* hmac.new(key, msg, hashlib.sha256).hexdigest()
hexdigest(key, msg) == <<"hmac-sha256">> \o key \o msg

SHA256_PREFIX == <<"s", "h", "a", "2", "5", "6", "=">>

\* X-Hub-Signature-256: missing, empty, cut short, a digest under some
\* secret of some body behind "sha256=" or behind seven other characters,
\* or a value with a character outside ASCII.
HeaderValues ==
    LET digests == {hexdigest(key, body.text) : key \in Secrets,
                                                 body \in {b \in Bodies : b.decodes}}
        SHA512_PREFIX == <<"s", "h", "a", "5", "1", "2", "=">>
    IN  {None, Some(NoStr), Some(SubSeq(SHA256_PREFIX, 1, 3)), Some(SHA256_PREFIX),
         Some(SHA256_PREFIX \o <<"U+00E9">>)}
          \cup {Some(SHA256_PREFIX \o d) : d \in digests}
          \cup {Some(SHA512_PREFIX \o d) : d \in digests}

\* request.headers.get("X-Hub-Signature-256", "")
header_get(header, default) == IF header.none THEN default ELSE header.s

\* hmac.compare_digest(a, b) on two str: TypeError for a character outside
\* ASCII.
compare_digest(a, b) ==
    LET NonAscii == {"U+00E9"}
    IN  IF \E i \in 1..Len(a) : a[i] \in NonAscii THEN "TypeError"
        ELSE IF \E i \in 1..Len(b) : b[i] \in NonAscii THEN "TypeError"
        ELSE IF a = b THEN "True" ELSE "False"

\* validate_signature, lines 27-34
validate_signature(APP_SECRET, payload, signature) ==
    compare_digest(hexdigest(APP_SECRET, payload), signature)

\* decorated_function, lines 54-56: the header without its first seven
\* characters.
SR_Signature ==
    /\ request.pc = "received"
    /\ request' = [request EXCEPT
                      !.signature = DropFirst(header_get(request.header, NoStr), 7),
                      !.pc = "validate"]
    /\ UNCHANGED <<user_histories, CONV_HISTORY, frame, received, appended,
                   llm_provider, whatsapp_adapter>>

\* decorated_function, lines 57-59: the body is decoded and the signature
\* validated; 403 when it is not valid.  An exception of the decoding or of
\* the comparison leaves the function and the request is answered with 500.
SR_Validate ==
    /\ request.pc = "validate"
    /\ request' =
          IF ~request.data.decodes
          THEN [request EXCEPT !.raised = "UnicodeDecodeError", !.status = 500,
                               !.pc = "done"]
          ELSE LET valid == validate_signature(request.APP_SECRET, request.data.text,
                                               request.signature)
               IN  IF valid = "TypeError"
                   THEN [request EXCEPT !.raised = "TypeError", !.status = 500,
                                        !.pc = "done"]
                   ELSE IF valid = "False"
                   THEN [request EXCEPT !.status = 403, !.pc = "done"]
                   ELSE [request EXCEPT !.pc = "view"]
    /\ UNCHANGED <<user_histories, CONV_HISTORY, frame, received, appended,
                   llm_provider, whatsapp_adapter>>

\* decorated_function, line 60: the view function is called.
SR_View ==
    /\ request.pc = "view"
    /\ request' = [request EXCEPT !.view_invoked = TRUE, !.status = 200, !.pc = "done"]
    /\ UNCHANGED <<user_histories, CONV_HISTORY, frame, received, appended,
                   llm_provider, whatsapp_adapter>>

\* A request comes in for a view wrapped by signature_required.
InitRequest ==
    /\ HandlersAtRest
    /\ llm_provider = NoProvider
    /\ whatsapp_adapter = NoSend
    /\ \E header \in HeaderValues, data \in Bodies, APP_SECRET \in Secrets :
          request = [NoRequest EXCEPT !.header = header, !.data = data,
                                      !.APP_SECRET = APP_SECRET, !.pc = "received"]

NextRequest == SR_Signature \/ SR_Validate \/ SR_View

SpecRequest == InitRequest /\ [][NextRequest]_vars

\* --------------------------------------------------------- WhatsAppAdapter
\* What requests.post(..., timeout=10) does: it raises Timeout or another
\* RequestException, or returns a response with a status code.
PostOutcomes ==
    {[exception |-> "Timeout", status_code |-> 0],
     [exception |-> "ConnectionError", status_code |-> 0]}
      \cup {[exception |-> "none", status_code |-> status_code] :
                status_code \in {200, 201, 302, 400, 401, 500}}

\* A variant that takes only the 5XX responses as errors.
raises_for_server_error(status_code) == 500 <= status_code /\ status_code < 600

\* response.raise_for_status() raises HTTPError, a RequestException, for 4XX
\* and 5XX.
raises_for_status(status_code) == 400 <= status_code /\ status_code < 600

\* _get_text_message_payload with the "+" put before the recipient.
text_message_payload(recipient_wa_id, text) ==
    [to |-> <<"+", recipient_wa_id>>, body |-> text]

\* send_text_message, lines 63-67: False when the configuration is missing.
ST_CheckConfig ==
    /\ whatsapp_adapter.pc = "called"
    /\ whatsapp_adapter' =
          IF ~Truthy(whatsapp_adapter.phone_number_id)
                \/ ~Truthy(whatsapp_adapter.access_token)
          THEN [whatsapp_adapter EXCEPT !.ret = "False", !.pc = "returned"]
          ELSE [whatsapp_adapter EXCEPT !.pc = "post"]
    /\ UNCHANGED <<user_histories, CONV_HISTORY, frame, received, appended,
                   llm_provider, request>>

\* send_text_message, lines 69-78: the POST is made.
ST_Post ==
    /\ whatsapp_adapter.pc = "post"
    /\ \E outcome \in PostOutcomes :
          whatsapp_adapter' =
              [whatsapp_adapter EXCEPT
                  !.posts = Append(@, text_message_payload(
                                whatsapp_adapter.recipient_wa_id, whatsapp_adapter.text)),
                  !.outcome = outcome,
                  !.pc = "response"]
    /\ UNCHANGED <<user_histories, CONV_HISTORY, frame, received, appended,
                   llm_provider, request>>

\* send_text_message, lines 79-91: True for a response that
\* raise_for_status lets through, False in the two except clauses.
ST_Response ==
    /\ whatsapp_adapter.pc = "response"
    /\ whatsapp_adapter' =
          IF whatsapp_adapter.outcome.exception # "none"
          THEN [whatsapp_adapter EXCEPT !.ret = "False", !.pc = "returned"]
          ELSE IF raises_for_status(whatsapp_adapter.outcome.status_code)
          THEN [whatsapp_adapter EXCEPT !.ret = "False", !.pc = "returned"]
          ELSE [whatsapp_adapter EXCEPT !.ret = "True", !.pc = "returned"]
    /\ UNCHANGED <<user_histories, CONV_HISTORY, frame, received, appended,
                   llm_provider, request>>

\* send_text_message is called with a text of the handlers on an adapter
\* whose PHONE_NUMBER_ID and ACCESS_TOKEN are each not there, empty or
\* configured.
InitAdapter ==
    /\ HandlersAtRest
    /\ llm_provider = NoProvider
    /\ request = NoRequest
    /\ LET ConfigValues == {None, Some(NoStr), Some(<<"configured">>)}
           SentTexts == {TEXT_TROUBLE, NOT_SURE_REPLY, <<ReplyToken(1)>>}
       IN  \E phone_number_id \in ConfigValues, access_token \in ConfigValues,
              recipient_wa_id \in Users, text \in SentTexts :
              whatsapp_adapter =
                  [NoSend EXCEPT !.phone_number_id = phone_number_id,
                                 !.access_token = access_token,
                                 !.recipient_wa_id = recipient_wa_id,
                                 !.text = text, !.pc = "called"]

NextAdapter == ST_CheckConfig \/ ST_Post \/ ST_Response

SpecAdapter == InitAdapter /\ [][NextAdapter]_vars

\* ------------------------------------------- the handlers run alone
\* ChatAssistant._append_to_history run to its end on a list.
append_to_history(current_history, role, content) ==
    LET appended_to == Append(current_history, Turn(role, content))
    IN  IF over_limit(appended_to) THEN keep_most_recent(appended_to)
        ELSE appended_to

\* handle_text_message run to its end on a list, the completion call giving
\* llm_reply_text.
text_exchange(history, text_body, llm_reply_text) ==
    LET with_user == append_to_history(history, "user", StrContent(text_body))
    IN  IF llm_reply_text # NoStr
        THEN append_to_history(with_user, "assistant", StrContent(llm_reply_text))
        ELSE with_user

\* openai_service._append_to_history run to its end on a list.
service_append_to_history(history, role, content) ==
    LET appended_to == Append(history, Turn(role, content))
        excess == history_excess(appended_to)
    IN  IF excess > 0 THEN drop_excess(appended_to, excess) ELSE appended_to

\* generate_response run to its end on a list: the completion call raised
\* (with the content None as well), or gave assistant_text.
response_exchange(history, name, message_body, system_message, raised, assistant_text) ==
    LET sm == resolve_system_message(system_message, default_text_system_prompt(name))
        seeded == IF history = << >>
                  THEN <<Turn("system", StrContent(sm))>>
                  ELSE IF history[1].role = "system"
                       THEN set_system_content(history, sm)
                       ELSE history
        with_user == service_append_to_history(seeded, "user", StrContent(message_body))
    IN  IF raised THEN with_user
        ELSE service_append_to_history(with_user, "assistant", StrContent(assistant_text))

\* ------------------------------------------------------------------ claims
Range(seq) == {seq[i] : i \in 1..Len(seq)}

\* Thread t is inside ChatAssistant._append_to_history / the service's one,
\* past the append and not yet returned.
InAppend(t) == frame[t].pc \in {"a_check", "a_slice", "a_store"}
InServiceAppend(t) == frame[t].pc \in {"s_excess", "s_slice", "s_store"}

AllIdle == \A t \in Threads : frame[t].pc = "idle"

\* The turn mentions inbound message m: its text, or its image.
Mentions(turn, m) ==
    \/ turn.content.str = MsgText(m)
    \/ \E p \in 1..Len(turn.content.parts) :
          MsgToken(m) \in Range(turn.content.parts[p].val)

NonSystemCount(history) ==
    Cardinality({i \in 1..Len(history) : history[i].role # "system"})

\* C1: once a user's conversation in openai_service has been given a system
\* turn, element 0 of _CONV_HISTORY[wa_id] is a system turn ever after.
C1_SystemTurnKept ==
    \A u \in Users :
        (\E turn \in Range(appended["service"][u]) : turn.role = "system")
            => /\ CONV_HISTORY[u] # << >>
               /\ CONV_HISTORY[u][1].role = "system"

\* C2: when the completion call of a message raised, the stored conversation
\* does not hold that message's user turn once its handler has ended.
C2_FailedTurnNotPersisted ==
    \A m \in 1..Len(received) :
        (received[m].completion = "raised" /\ received[m].ended # "running")
            => \A turn \in Range(user_histories[received[m].wa_id]) :
                   ~(turn.role = "user" /\ Mentions(turn, m))

\* C3: whenever ChatAssistant._append_to_history has returned, the user's
\* stored list has at most 2 * max_history_turns entries.
C3_HistoryBounded ==
    \A u \in Users :
        (\A t \in Threads : ~(InAppend(t) /\ frame[t].wa_id = u))
            => Len(user_histories[u]) <= 2 * max_history_turns

\* C3's case: more turns than the bound were appended for a user, the last
\* call has returned and the list is full.
C3_Witness ==
    /\ AllIdle
    /\ \E u \in Users :
          /\ Len(appended["assistant"][u]) > 2 * max_history_turns
          /\ Len(user_histories[u]) = 2 * max_history_turns

\* C4: outside the append-then-trim of _append_to_history, the number of
\* non-system turns of _CONV_HISTORY[wa_id] is at most 2 * _MAX_TURNS, also
\* when generate_image_response hands the list to the backend.
C4_NonSystemBounded ==
    \A u \in Users :
        (\A t \in Threads : ~(InServiceAppend(t) /\ frame[t].wa_id = u))
            => NonSystemCount(CONV_HISTORY[u]) <= 2 * MAX_TURNS

\* The inbound message m was a text exchange that succeeded: the completion
\* call returned the reply that was sent.
SuccessfulText(m) ==
    /\ received[m].fn = "handle_text_message"
    /\ received[m].completion = "ok"
    /\ received[m].ended = "returned"
    /\ received[m].reply = <<<<ReplyToken(m)>>>>

\* C5: the prompt process_whatsapp_message sends for a user's text message
\* holds the user turn and the reply of that user's successful text
\* exchange just before it.
C5_HistoryRetained ==
    \A t \in Threads :
        (/\ frame[t].pc = "ht_llm"
         /\ frame[t].msg > 1
         /\ SuccessfulText(frame[t].msg - 1)
         /\ received[frame[t].msg - 1].wa_id = frame[t].wa_id)
            => /\ Turn("user", StrContent(MsgText(frame[t].msg - 1)))
                      \in Range(frame[t].messages_payload)
               /\ Turn("assistant", StrContent(<<ReplyToken(frame[t].msg - 1)>>))
                      \in Range(frame[t].messages_payload)

\* C6: whenever the handlers of ChatAssistant have returned, every user turn
\* of a stored list is followed by an assistant turn: none is last.
C6_UserTurnsAnswered ==
    AllIdle =>
        \A u \in Users :
            \A i \in 1..Len(user_histories[u]) :
                user_histories[u][i].role = "user"
                    => /\ i < Len(user_histories[u])
                       /\ user_histories[u][i + 1].role = "assistant"

First == Len(ConcReceived) + 1
Second == Len(ConcReceived) + 2

\* handle_text_message for message m alone on history, with the reply it got:
\* the text sent is the reply, or the trouble text when the reply was empty.
SerialText(history, m) ==
    text_exchange(history, MsgText(m),
                  IF received[m].reply[1] = TEXT_TROUBLE THEN NoStr
                  ELSE received[m].reply[1])

\* generate_response for message m alone on history, with the outcome it had.
SerialResponse(history, m) ==
    response_exchange(history, NameOf(received[m].wa_id), MsgText(m), None,
                      received[m].ended = "raised",
                      IF received[m].ended = "raised" THEN NoStr
                      ELSE received[m].reply[1])

BothThrough(fn) ==
    /\ AllIdle
    /\ Len(received) = Second
    /\ received[First].wa_id = received[Second].wa_id
    /\ received[First].fn = fn
    /\ received[Second].fn = fn

\* C8: when two messages of one user have been handled by two threads, both
\* through handle_text_message of one ChatAssistant or both through
\* generate_response, the user's stored list is what handling them one
\* after the other, in one of the two orders, leaves.
C8_Serializable ==
    /\ BothThrough("handle_text_message") =>
          LET h == InitConcStore("assistant")[received[First].wa_id]
          IN  user_histories[received[First].wa_id] \in
                  {SerialText(SerialText(h, First), Second),
                   SerialText(SerialText(h, Second), First)}
    /\ BothThrough("generate_response") =>
          LET h == InitConcStore("service")[received[First].wa_id]
          IN  CONV_HISTORY[received[First].wa_id] \in
                  {SerialResponse(SerialResponse(h, First), Second),
                   SerialResponse(SerialResponse(h, Second), First)}

\* The user and assistant turns among the newest n appended to a list.
NewestTurns(turns, n) ==
    {turn \in Range(LastN(turns, n)) : turn.role # "system"}

\* C9: when two messages of one user have been handled by two threads, both
\* through handle_text_message or both through generate_response, so that
\* every turn was appended by _append_to_history, the two newest turns
\* appended for the user, which the retention bound never asks to drop, are
\* both in the stored list.
C9_NoLostUpdate ==
    /\ BothThrough("handle_text_message") =>
          NewestTurns(appended["assistant"][received[First].wa_id], 2)
              \subseteq Range(user_histories[received[First].wa_id])
    /\ BothThrough("generate_response") =>
          NewestTurns(appended["service"][received[First].wa_id], 2)
              \subseteq Range(CONV_HISTORY[received[First].wa_id])

\* The step is taken by a thread that works for user u.
StepFor(u) ==
    \E t \in Threads :
        /\ frame'[t] # frame[t]
        /\ frame[t].pc # "idle"
        /\ frame[t].wa_id = u

\* The turns appended to a stored list of user u.
AppendedFor(u) ==
    Range(appended["assistant"][u]) \cup Range(appended["service"][u])

\* No turn of the prompt of thread t is one appended for another user (and
\* not for the thread's own as well: two users can be given the same text).
OwnPrompt(t) ==
    \A turn \in Range(frame[t].messages_payload) :
        \A v \in Users \ {frame[t].wa_id} :
            turn \in AppendedFor(v) => turn \in AppendedFor(frame[t].wa_id)

\* C10: a user's stored lists change only in steps of a thread that works for
\* that user, and the prompt a thread sends to the backend holds no turn
\* appended for another user.
C10_PerUserIsolation ==
    /\ [][\A u \in Users :
             (\/ user_histories'[u] # user_histories[u]
              \/ CONV_HISTORY'[u] # CONV_HISTORY[u]) => StepFor(u)]_vars
    /\ [](\A t \in Threads : OwnPrompt(t))

\* C10's case: a thread for A is at its completion call with a prompt that
\* holds A's earlier exchange, while a thread for B has appended B's turn.
C10_Witness ==
    \E t1, t2 \in Threads :
        /\ frame[t1].wa_id = "A"
        /\ frame[t1].pc \in {"ht_llm", "hi_llm"}
        /\ Len(frame[t1].messages_payload) > 2
        /\ frame[t2].wa_id = "B"
        /\ frame[t2].pc \in {"ht_llm", "hi_llm", "gr_llm", "gi_llm"}
        /\ user_histories["B"] # << >> \/ CONV_HISTORY["B"] # << >>

\* The user turn of message m is in the list.
HoldsUserTurnOf(history, m) ==
    \E turn \in Range(history) : turn.role = "user" /\ Mentions(turn, m)

\* C11: while the completion call of a message is in flight, the stored
\* list of its user does not hold the message's user turn.
C11_NotPersistedInFlight ==
    \A t \in Threads :
        /\ frame[t].pc \in {"ht_llm", "hi_llm"}
              => ~HoldsUserTurnOf(user_histories[frame[t].wa_id], frame[t].msg)
        /\ frame[t].pc \in {"gr_llm", "gi_llm"}
              => ~HoldsUserTurnOf(CONV_HISTORY[frame[t].wa_id], frame[t].msg)

\* C12: a generate_response whose completion call raised has not raised to
\* its caller: once ended, it has returned a reply.
C12_ResponseNeverRaises ==
    \A m \in 1..Len(received) :
        (/\ received[m].fn = "generate_response"
         /\ received[m].completion = "raised"
         /\ received[m].ended # "running")
            => /\ received[m].ended = "returned"
               /\ Len(received[m].reply) = 1

\* C13: when generate_response is about to return the reply of a completion
\* call for a user who had no conversation (the list was seeded by this
\* call: three turns were ever appended), the list is exactly the system
\* turn of the directive, the user turn of the message, the assistant turn.
C13_FreshRoundTrip ==
    \A t \in Threads :
        (frame[t].pc = "gr_return"
            /\ Len(appended["service"][frame[t].wa_id]) = 3)
            => CONV_HISTORY[frame[t].wa_id] =
                  <<Turn("system", StrContent(
                        IF frame[t].system_message_arg.none
                        THEN default_text_system_prompt(NameOf(frame[t].wa_id))
                        ELSE frame[t].system_message_arg.s)),
                    Turn("user", StrContent(MsgText(frame[t].msg))),
                    Turn("assistant", StrContent(frame[t].assistant_text))>>

\* C13's case: the first call for a user, with the caller's directive, the
\* backend's reply about to be returned.
C13_Witness ==
    \E t \in Threads :
        /\ frame[t].pc = "gr_return"
        /\ Len(appended["service"][frame[t].wa_id]) = 3
        /\ frame[t].system_message_arg = Some(TECH_SUPPORT)
        /\ frame[t].assistant_text = <<ReplyToken(frame[t].msg)>>
        /\ Len(CONV_HISTORY[frame[t].wa_id]) = 3

\* C14: the message sequence handle_text_message builds is the system turn
\* of the directive, the user's stored list as it is at that moment, and the
\* user turn of the message; and no later step of the handler, the appends
\* to the stored list among them, changes the sequence built.
C14_PromptIsSystemHistoryUser ==
    [][\A t \in Threads :
          /\ (frame[t].pc = "ht_build" /\ frame'[t].pc # "ht_build")
                => frame'[t].messages_payload =
                      <<Turn("system", StrContent(
                            default_text_system_prompt(NameOf(frame[t].wa_id))))>>
                         \o user_histories[frame[t].wa_id]
                         \o <<Turn("user", StrContent(MsgText(frame[t].msg)))>>
          /\ (/\ frame[t].fn = "handle_text_message"
              /\ frame[t].pc \notin {"idle", "ht_build"}
              /\ frame'[t].pc # "idle")
                => frame'[t].messages_payload = frame[t].messages_payload]_vars

\* C14's case: the second message after one completed exchange, at its
\* completion call: four messages in the prompt, the user turn already
\* appended to the stored list.
C14_Witness ==
    \E t \in Threads :
        /\ frame[t].pc = "ht_llm"
        /\ frame[t].msg = 2
        /\ SuccessfulText(1)
        /\ Len(frame[t].messages_payload) = 4
        /\ frame[t].messages_payload[2] = Turn("user", StrContent(MsgText(1)))
        /\ frame[t].messages_payload[3] = Turn("assistant", StrContent(<<ReplyToken(1)>>))
        /\ Len(user_histories[frame[t].wa_id]) = 3

\* C15: whenever ChatAssistant._append_to_history has returned, a user's
\* stored list is the newest min(N, 2 * max_history_turns) of the N turns
\* appended for the user since the list was empty, in the order appended.
C15_NewestKeptInOrder ==
    \A u \in Users :
        (\A t \in Threads : ~(InAppend(t) /\ frame[t].wa_id = u))
            => LET turns == appended["assistant"][u]
                   n == Len(turns)
                   k == IF n < 2 * max_history_turns THEN n
                        ELSE 2 * max_history_turns
               IN  /\ Len(user_histories[u]) = k
                   /\ \A i \in 1..k : user_histories[u][i] = turns[n - k + i]

\* C15's case: one pair more than the bound holds was appended; the oldest
\* pair is gone and the list starts with the user turn of the second pair.
C15_Witness ==
    \E u \in Users :
        LET turns == appended["assistant"][u]
        IN  /\ AllIdle
            /\ Len(turns) = 2 * max_history_turns + 2
            /\ \A i \in 1..Len(turns) :
                  turns[i].role = IF i % 2 = 1 THEN "user" ELSE "assistant"
            /\ user_histories[u] = SubSeq(turns, 3, Len(turns))

\* The positions of the system turns of a list.
SystemPositions(history) ==
    {i \in 1..Len(history) : history[i].role = "system"}

\* C16: at every moment of generate_response and generate_image_response
\* called one after the other, a conversation of openai_service has at most
\* one system turn, and a system turn it has is its first entry.
C16_OneSystemTurnInFront ==
    \A u \in Users : SystemPositions(CONV_HISTORY[u]) \subseteq {1}

\* C16's case: a system turn was trimmed away and generate_image_response
\* has put a new one in front of the user and assistant turns kept.
C16_Witness ==
    \E u \in Users :
        /\ Cardinality(SystemPositions(appended["service"][u])) = 2
        /\ SystemPositions(CONV_HISTORY[u]) = {1}
        /\ Len(CONV_HISTORY[u]) > 2 * MAX_TURNS

\* C17: the step of generate_response or generate_image_response that
\* updates the directive of a conversation with a leading system turn
\* changes the content of the first entry to the directive of the call and
\* nothing else: the length and every other entry stay, and there is
\* exactly one system turn.
C17_DirectiveUpdatedInPlace ==
    [][\A t \in Threads :
          (/\ frame[t].pc \in {"gr_syswrite", "gi_syswrite"}
           /\ SystemPositions(CONV_HISTORY[frame[t].wa_id]) = {1}
           /\ frame'[t].pc # frame[t].pc)
             => LET old == CONV_HISTORY[frame[t].wa_id]
                    new == CONV_HISTORY'[frame[t].wa_id]
                IN  /\ Len(new) = Len(old)
                    /\ new[1] = Turn("system", StrContent(frame[t].system_message))
                    /\ \A i \in 2..Len(old) : new[i] = old[i]
                    /\ SystemPositions(new) = {1}]_vars

\* C17's case: an image message after a text exchange: the directive of the
\* text call has been replaced by that of the image call, in a conversation
\* that still holds the text exchange.
C17_Witness ==
    \E t \in Threads :
        LET u == frame[t].wa_id
        IN  /\ frame[t].pc = "gi_trim"
            /\ frame[t].branch = "update"
            /\ appended["service"][u][1] = Turn("system", StrContent(TECH_SUPPORT))
            /\ CONV_HISTORY[u] =
                  <<Turn("system", StrContent(default_image_system_prompt(NameOf(u)))),
                    Turn("user", StrContent(MsgText(1))),
                    Turn("assistant", StrContent(<<ReplyToken(1)>>))>>

\* Thread t is in an image handler, at its media retrieval.
AtMediaRetrieval(t) ==
    frame[t].pc \in {"hi_media", "hi_download", "gi_media", "gi_download"}

\* C18: a step of the media retrieval of handle_image_message or
\* generate_image_response changes no stored conversation; when the
\* retrieval fails the handler ends there, with one apology and without a
\* completion call; and a completion call for an image is made only with
\* the mime type and the bytes retrieved.
C18_MediaFailureLeavesState ==
    /\ [][\A t \in Threads :
             (AtMediaRetrieval(t) /\ frame'[t] # frame[t])
                => /\ user_histories' = user_histories
                   /\ CONV_HISTORY' = CONV_HISTORY
                   /\ appended' = appended
                   /\ frame'[t].pc = "idle"
                        => /\ received'[frame[t].msg].completion = "none"
                           /\ received'[frame[t].msg].ended = "returned"
                           /\ received'[frame[t].msg].reply \in
                                 {<<NO_MEDIA_INFO>>, <<MEDIA_INCOMPLETE>>,
                                  <<NO_DOWNLOAD>>}]_vars
    /\ [](\A t \in Threads :
             frame[t].pc \in {"hi_llm", "gi_llm"}
                => /\ frame[t].mime_type # NoStr
                   /\ frame[t].data_url =
                         make_data_url(frame[t].mime_type,
                                       <<"bytes-of-", MsgToken(frame[t].msg)>>))

\* C18's case: an image message of a user with a conversation ended at a
\* failed download, through each of the two handlers.
C18_Witness ==
    /\ AllIdle
    /\ Len(received) = Second
    /\ received[First].wa_id = "A" /\ received[Second].wa_id = "A"
    /\ received[First].fn = "handle_image_message"
    /\ received[Second].fn = "generate_image_response"
    /\ \A m \in {First, Second} :
          /\ received[m].reply = <<NO_DOWNLOAD>>
          /\ received[m].completion = "none"
    /\ user_histories = InitConcStore("assistant")
    /\ CONV_HISTORY = InitConcStore("service")

\* The step takes in message m, of a type that is neither text nor image.
TakesUnsupported(m) ==
    /\ Len(received) = m - 1
    /\ Len(received') = m
    /\ received'[m].fn = "unsupported"

\* C19: process_whatsapp_message, of app/bot/utils.py and of
\* app/utils/whatsapp_utils.py, given a message that is neither text nor
\* image, enters no handler and makes no completion call, and appends to or
\* trims no conversation: the lists of openai_service stay as they are and
\* those of the ChatAssistant stay as they are or as the new instance has
\* them, empty.
C19_UnsupportedTouchesNothing ==
    /\ [][\A m \in 1..MaxMsgs :
             TakesUnsupported(m)
                => /\ frame' = frame
                   /\ appended' = appended
                   /\ CONV_HISTORY' = CONV_HISTORY
                   /\ user_histories' \in {user_histories, EmptyStore}]_vars
    /\ [](\A m \in 1..Len(received) :
             received[m].fn = "unsupported"
                => /\ received[m].completion = "none"
                   /\ received[m].ended = "returned")

\* C19's case: after a text exchange through generate_response, a message
\* of another type through each entry; the conversation is still there.
C19_Witness ==
    /\ Len(received) = 3
    /\ received[1].fn = "generate_response" /\ received[1].ended = "returned"
    /\ received[2].fn = "unsupported" /\ received[2].reply = <<UNSUPPORTED_REPLY>>
    /\ received[3].fn = "unsupported" /\ received[3].reply = << >>
    /\ Len(CONV_HISTORY[received[1].wa_id]) = 3

\* C20: LLMProvider.get_chat_completion gives, for a completion call that
\* returned a content of None or "", the text "I received that, but I'm not
\* sure how to respond just yet.", which is not the text it gives for a call
\* that raised; so the reply a handler holds after its completion call is
\* the text for a raised call exactly when the call raised.
C20_EmptyReplyDistinct ==
    /\ \A resp \in {Returns(None), Returns(Some(NoStr))} :
          /\ get_chat_completion(resp) =
                <<"I received that, but I'm not sure how to respond just yet.">>
          /\ get_chat_completion(resp) # get_chat_completion(Raises)
    /\ \A t \in Threads :
          frame[t].pc \in {"ht_reply", "hi_reply"}
             => (received[frame[t].msg].completion = "raised"
                    <=> frame[t].llm_reply_text = get_chat_completion(Raises))

\* C20's case: a handler holds the reply of a completion call that returned
\* without content.
C20_Witness ==
    \E t \in Threads :
        /\ frame[t].pc = "ht_reply"
        /\ received[frame[t].msg].completion = "ok"
        /\ frame[t].llm_reply_text =
              <<"I received that, but I'm not sure how to respond just yet.">>

\* ---------------------------------------------------------------- C21
\* The handlers of ChatAssistant.
AssistantHandlers == {"handle_text_message", "handle_image_message"}

\* C21: whenever ChatAssistant has sent a text to the user after attempting
\* a completion (the reply of the backend or a fallback text), that text
\* is the last assistant turn of the user's stored history.  Stated for the
\* newest message, after whose send nothing more was appended.
C21_SentTextIsLastStoredTurn ==
    \A m \in 1..Len(received) :
        (/\ m = Len(received)
         /\ received[m].fn \in AssistantHandlers
         /\ received[m].completion # "none"
         /\ received[m].ended = "returned")
        => LET stored == user_histories[received[m].wa_id]
           IN  /\ stored # << >>
               /\ stored[Len(stored)] =
                     Turn("assistant", StrContent(received[m].reply[1]))

\* ---------------------------------------------------------------- C22
\* A handler of ChatAssistant is running on thread t.
HandlerStep(t) == AppendStep(t) \/ TextStep(t) \/ ImageStep(t)

\* The request thread keeps executing the handler it is in.
FairAssistant == SpecAssistant /\ WF_vars(HandlerStep(1))

\* So far no handler raised, a handler that returned made one send, and a
\* handler that has not returned made none yet and is the one its thread
\* runs.
OneSendPerHandler ==
    \A m \in 1..Len(received) :
        /\ received[m].ended # "raised"
        /\ received[m].ended = "returned" => Len(received[m].reply) = 1
        /\ received[m].ended = "running"
              => /\ received[m].reply = << >>
                 /\ \E t \in Threads : frame[t].pc # "idle" /\ frame[t].msg = m

\* C22: every invocation of handle_text_message or handle_image_message
\* ends, on every path, with exactly one send to the user and without
\* raising: a handler that runs always comes to its end, and it ends in no
\* other way than returned, after one send.
C22_EveryHandlerEndsWithOneSend ==
    /\ []OneSendPerHandler
    /\ []<>(\A t \in Threads : frame[t].pc = "idle")

\* C22's case: a handler ended on the path of an empty reply.
C22_Witness ==
    \E m \in 1..Len(received) :
        /\ received[m].completion = "ok"
        /\ received[m].ended = "returned"
        /\ received[m].reply \in {<<TEXT_TROUBLE>>, <<IMAGE_TROUBLE>>}

\* ---------------------------------------------------------------- C24
\* The text part that goes with a caption.
ExpectedImageText(name, caption) ==
    IF caption.none \/ caption.s = NoStr
    THEN <<"Image received from ">> \o name \o <<".", " There was no caption.">>
    ELSE <<"Image received from ">> \o name
            \o <<".", " The caption is: '">> \o caption.s \o <<"'.">>

\* C24: in the image flow the content of the user turn is two parts in
\* order, a text part and then an image part carrying the data URL; the
\* text part of a present caption quotes it, and None and the empty caption
\* both give the text part that says there was no caption.
C24_ImageUserTurnParts ==
    /\ \A caption \in Captions :
          image_user_parts(NameOf("A"), <<"url">>, caption) =
              <<Part("text", ExpectedImageText(NameOf("A"), caption)),
                Part("image_url", <<"url">>)>>
    /\ ExpectedImageText(NameOf("A"), Some(<<"cap">>))
            # ExpectedImageText(NameOf("A"), None)
    /\ \A t \in Threads :
          frame[t].pc = "hi_llm"
             => LET payload == frame[t].messages_payload
                    parts == payload[Len(payload)].content.parts
                    stored == user_histories[frame[t].wa_id]
                IN  /\ Len(parts) = 2
                    /\ parts[1] = Part("text",
                          ExpectedImageText(NameOf(frame[t].wa_id), frame[t].caption))
                    /\ parts[2] = Part("image_url", frame[t].data_url)
                    /\ stored[Len(stored)] = Turn("user", PartsContent(parts))

\* C24's case: the prompt of an image with an empty caption is built.
C24_Witness ==
    \E t \in Threads :
        /\ frame[t].pc = "hi_llm"
        /\ frame[t].caption = Some(NoStr)
        /\ frame[t].data_url # NoStr

\* ---------------------------------------------------------------- C25
\* C25: get_chat_completion never yields an empty reply, so a handler of
\* ChatAssistant never holds an empty llm_reply_text when it chooses
\* between recording the reply and the "no reply" branch.
C25_ReplyNeverEmpty ==
    \A t \in Threads :
        frame[t].pc \in {"ht_reply", "hi_reply"} => frame[t].llm_reply_text # NoStr

\* ---------------------------------------------------------------- C26
\* C26: user_histories holds user and assistant turns only, and every
\* sequence of messages passed to get_chat_completion has one system turn,
\* in front, and at most 2 * max_history_turns + 2 messages.
C26_SystemNeverStored ==
    /\ \A u \in Users : \A i \in 1..Len(user_histories[u]) :
          user_histories[u][i].role \in {"user", "assistant"}
    /\ \A t \in Threads :
          frame[t].pc \in {"ht_llm", "hi_llm"}
             => /\ SystemPositions(frame[t].messages_payload) = {1}
                /\ Len(frame[t].messages_payload) <= 2 * max_history_turns + 2

\* C26's case: a completion call is made with a full history in the prompt.
C26_Witness ==
    \E t \in Threads :
        /\ frame[t].pc = "ht_llm"
        /\ Len(frame[t].messages_payload) = 2 * max_history_turns + 2
        /\ Len(user_histories[frame[t].wa_id]) = 2 * max_history_turns

\* ---------------------------------------------------------------- C27
\* The pre-append trim loop of generate_image_response on its own: the
\* call stands at line 358 with the conversation of its user being any of
\* TrimConversations.  _CONV_HISTORY is shared by the request threads, so a
\* list is longer than the bound of _append_to_history when other requests
\* of the user have appended to it and not trimmed it yet.
MaxPairs == MAX_TURNS + 2

\* user and assistant turns of k exchanges, oldest first
RECURSIVE Exchanges(_)
Exchanges(k) ==
    IF k = 0 THEN << >>
    ELSE Exchanges(k - 1)
            \o <<Turn("user", StrContent(MsgText(k))),
                 Turn("assistant", StrContent(<<ReplyToken(k)>>))>>

\* The tails of MaxPairs exchanges, as they are or behind a system turn.
TrimConversations ==
    LET tails == {LastN(Exchanges(MaxPairs), n) : n \in 1..(2 * MaxPairs)} \cup {<< >>}
        systems == {Turn("system", StrContent(default_text_system_prompt(NameOf("A")))),
                    Turn("system", StrContent(TECH_SUPPORT))}
    IN  tails \cup {<<s>> \o tail : s \in systems, tail \in tails}

InitTrim ==
    /\ user_histories = EmptyStore
    /\ \E conversation \in TrimConversations :
          /\ CONV_HISTORY = [EmptyStore EXCEPT !["A"] = conversation]
          /\ appended = [s \in {"assistant", "service"} |->
                            IF s = "service"
                            THEN [EmptyStore EXCEPT !["A"] = conversation]
                            ELSE EmptyStore]
    /\ \E system_message \in SystemMessages :
          frame = [t \in Threads |->
                     IF t = 1
                     THEN [IdleFrame EXCEPT
                             !.pc = "gi_system", !.fn = "generate_image_response",
                             !.msg = 1, !.system_message_arg = system_message,
                             !.user_message_parts =
                                 image_user_parts(NameOf("A"), <<"url">>, None)]
                     ELSE IdleFrame]
    /\ received = <<Inbound("A", "generate_image_response")>>
    /\ CollaboratorsAtRest

NextTrim == GI_System(1) \/ GI_SysWrite(1) \/ GI_Trim(1)

\* The thread that runs the loop keeps running it.
SpecTrim == InitTrim /\ [][NextTrim]_vars /\ WF_vars(NextTrim)

NotSystem(turn) == turn.role # "system"

\* The loop has been left: the system turn with the resolved directive is in
\* front, there are fewer than 2 + 2 * _MAX_TURNS entries, and behind the
\* system turn are the newest of the other turns, none of them removed
\* unless it was the oldest.
TrimLoopLeft ==
    frame[1].pc = "gi_append"
       => LET history == CONV_HISTORY["A"]
              directive == resolve_system_message(frame[1].system_message_arg,
                                default_image_system_prompt(NameOf("A")))
              others == SelectSeq(appended["service"]["A"], NotSystem)
          IN  /\ history # << >>
              /\ history[1] = Turn("system", StrContent(directive))
              /\ Len(history) < 2 + 2 * MAX_TURNS
              /\ DropFirst(history, 1) = LastN(others, 2 * MAX_TURNS)

\* C27: the pre-append trim loop of generate_image_response terminates for
\* every conversation, and when it is left the conversation has its system
\* turn with the resolved directive in front and fewer than
\* 2 + 2 * _MAX_TURNS entries, only entries at index 1 having been removed.
C27_TrimLoopTerminates ==
    /\ <>(frame[1].pc = "gi_append")
    /\ []TrimLoopLeft

\* C27's case: the loop has been left after it removed entries.
C27_Witness ==
    /\ frame[1].pc = "gi_append"
    /\ Len(CONV_HISTORY["A"]) = 1 + 2 * MAX_TURNS
    /\ Len(SelectSeq(appended["service"]["A"], NotSystem)) > 2 * MAX_TURNS

\* ---------------------------------------------------------------- C23
\* The construction of the provider has not got past its configuration:
\* there is no client and no completion call.
NothingConstructed ==
    /\ llm_provider.pc \in {"init", "config", "raised"}
    /\ llm_provider.client = "none"
    /\ ~llm_provider.completion_called

\* A required variable of provider is unset or empty.
RequiredVarMissing(provider) ==
    \E var \in required_vars(provider) :
        llm_provider.environ[var].none \/ llm_provider.environ[var].s = NoStr

\* C23 as stated: if the value of CHAT_API_PROVIDER is not one of OPENAI,
\* AZURE, VLLM, or a required variable of the selected provider is unset or
\* empty, initialization raises before a client is constructed and no
\* completion call is made.
C23_AsStated ==
    LET value == llm_provider.environ["CHAT_API_PROVIDER"]
    IN  (llm_provider.pc # "none"
            /\ (\/ value \notin {Some(p) : p \in SupportedProviders}
                \/ RequiredVarMissing(value.s)))
           => /\ NothingConstructed
              /\ llm_provider.pc = "raised"
                    => llm_provider.raised \in {"ValueError", "RuntimeError"}

\* The provider that initialization selects: CHAT_API_PROVIDER in upper
\* case, OPENAI when the variable is unset.
SelectedProvider ==
    LET value == llm_provider.environ["CHAT_API_PROVIDER"]
    IN  IF value.none THEN <<"OPENAI">> ELSE upper(value.s)

\* C23: if the selected provider (CHAT_API_PROVIDER in upper case, OPENAI
\* when unset) is not one of OPENAI, AZURE, VLLM, initialization raises
\* ValueError, and if a required variable of the selected provider is unset
\* or empty it raises RuntimeError, in both cases before a client is
\* constructed, so that no completion call is made; a client is constructed
\* only for a supported provider whose required variables are all set.
C23_ConfigurationErrorsFatal ==
    /\ (llm_provider.pc # "none" /\ SelectedProvider \notin SupportedProviders)
          => /\ NothingConstructed
             /\ llm_provider.pc = "raised" => llm_provider.raised = "ValueError"
    /\ (llm_provider.pc # "none" /\ SelectedProvider \in SupportedProviders
            /\ RequiredVarMissing(SelectedProvider))
          => /\ NothingConstructed
             /\ llm_provider.pc = "raised" => llm_provider.raised = "RuntimeError"
    /\ llm_provider.pc = "raised"
          => \/ SelectedProvider \notin SupportedProviders
             \/ RequiredVarMissing(SelectedProvider)

\* C23's case: initialization raised for a required variable that is set
\* to the empty string.
C23_Witness ==
    /\ llm_provider.pc = "raised"
    /\ llm_provider.raised = "RuntimeError"
    /\ \A var \in required_vars(SelectedProvider) : ~llm_provider.environ[var].none

\* ---------------------------------------------------------------- C28
\* The request carries "sha256=" and then the HMAC-SHA256 of its body under
\* APP_SECRET.
Signed ==
    /\ request.data.decodes
    /\ request.header =
          Some(SHA256_PREFIX \o hexdigest(request.APP_SECRET, request.data.text))

\* C28: the view wrapped by signature_required is executed only for a
\* request whose X-Hub-Signature-256 value, without its "sha256=" prefix, is
\* the HMAC-SHA256 of the body under APP_SECRET; every other request is
\* answered with 403 and the view is not invoked.
C28_ViewOnlyForSignedRequests ==
    /\ request.view_invoked => Signed
    /\ (request.pc = "done" /\ ~Signed)
          => ~request.view_invoked /\ request.status = 403

\* ---------------------------------------------------------------- C29
\* PHONE_NUMBER_ID or ACCESS_TOKEN is missing.
ConfigMissing ==
    \/ whatsapp_adapter.phone_number_id \in {None, Some(NoStr)}
    \/ whatsapp_adapter.access_token \in {None, Some(NoStr)}

\* C29: send_text_message returns True only if one HTTP POST was made, of
\* the text to the recipient, and answered with a status that is no error;
\* with PHONE_NUMBER_ID or ACCESS_TOKEN missing it makes no POST and
\* returns False; after a timeout or another request error, an error
\* status included, it returns False; it ends in no other way than by
\* returning True or False.
C29_SendReportsOutcome ==
    /\ whatsapp_adapter.ret = "True"
          => /\ whatsapp_adapter.posts =
                   <<[to |-> <<"+", whatsapp_adapter.recipient_wa_id>>,
                      body |-> whatsapp_adapter.text]>>
             /\ whatsapp_adapter.outcome.exception = "none"
             /\ whatsapp_adapter.outcome.status_code \notin 400..599
    /\ (whatsapp_adapter.pc # "none" /\ ConfigMissing)
          => /\ whatsapp_adapter.posts = << >>
             /\ whatsapp_adapter.pc \in {"called", "returned"}
             /\ whatsapp_adapter.pc = "returned" => whatsapp_adapter.ret = "False"
    /\ (whatsapp_adapter.pc = "returned"
            /\ (\/ whatsapp_adapter.outcome.exception # "none"
                \/ whatsapp_adapter.outcome.status_code \in 400..599))
          => whatsapp_adapter.ret = "False"
    /\ whatsapp_adapter.pc = "returned" => whatsapp_adapter.ret \in {"True", "False"}

\* C29's case: a POST was made and answered with 401, and the call returned.
C29_Witness ==
    /\ whatsapp_adapter.pc = "returned"
    /\ Len(whatsapp_adapter.posts) = 1
    /\ whatsapp_adapter.outcome = [exception |-> "none", status_code |-> 401]

====
